---- MODULE Spec2Model ----
(***************************************************************************)
(* A model of versioning.py: the ReleaseState enumeration and the Version  *)
(* value type with its two string encodings, its tuple form, its ordering  *)
(* and its bump operation.                                                 *)
(*                                                                         *)
(* Python values are modelled with their types: a text is a sequence of    *)
(* one-character strings, an outcome is a record whose kind is the type of *)
(* the value returned ("Version", "str", "tuple", "bool") or of the        *)
(* exception raised ("ValueError", "AttributeError"), and the state field  *)
(* of a Version carries the class of the object stored in it (a            *)
(* ReleaseState member or a plain int), since the dataclass stores what it *)
(* is given without converting it.                                         *)
(***************************************************************************)
EXTENDS Integers, Sequences, FiniteSets, TLC

VARIABLES call, result, bumps

vars == <<call, result, bumps>>

----------------------------------------------------------------------------
(* Texts *)

DigitChars == <<"0", "1", "2", "3", "4", "5", "6", "7", "8", "9">>

Digits == {DigitChars[k] : k \in 1..10}

Letters ==
  {"a", "b", "c", "d", "e", "f", "g", "h", "i", "j", "k", "l", "m", "n", "o", "p",
   "q", "r", "s", "t", "u", "v", "w", "x", "y", "z", "A", "B", "C", "D", "E", "F",
   "G", "H", "I", "J", "K", "L", "M", "N", "O", "P", "Q", "R", "S", "T", "U", "V",
   "W", "X", "Y", "Z"}

\* needle in hay, for two texts
Contains(needle, hay) ==
  \E k \in 1..(Len(hay) - Len(needle) + 1) :
    SubSeq(hay, k, k + Len(needle) - 1) = needle

\* str(n) and '%d' % n for an int n >= 0
RECURSIVE IntToStr(_)
IntToStr(n) ==
  IF n < 10 THEN <<DigitChars[n + 1]>>
  ELSE IntToStr(n \div 10) \o <<DigitChars[(n % 10) + 1]>>

DigitValue(c) == (CHOOSE k \in 1..10 : DigitChars[k] = c) - 1

\* int(s) for a text of decimal digits
RECURSIVE StrToInt(_)
StrToInt(s) ==
  IF Len(s) = 0 THEN 0
  ELSE 10 * StrToInt(SubSeq(s, 1, Len(s) - 1)) + DigitValue(s[Len(s)])

\* '.'.join(items)
RECURSIVE Join(_, _)
Join(sep, items) ==
  IF Len(items) = 0 THEN <<>>
  ELSE IF Len(items) = 1 THEN items[1]
  ELSE items[1] \o sep \o Join(sep, Tail(items))

----------------------------------------------------------------------------
(* Regular expressions: a pattern is a sequence of tokens, matched the way *)
(* re.match does it, greedily and with backtracking.                       *)

Bol == [t |-> "bol"]
Eol == [t |-> "eol"]
Lit(c) == [t |-> "lit", c |-> c]
Digit(g) == [t |-> "digit", g |-> g]
Num(g) == [t |-> "num", g |-> g]
Alpha(g) == [t |-> "alpha", g |-> g]
Opt(sub) == [t |-> "opt", sub |-> sub]

GroupNames == {"r", "f", "p", "s", "i", "br", "bf", "bp", "b"}

\* a group that did not take part in the match is None
NoGroup == [present |-> FALSE, text |-> <<>>]

Group(s) == [present |-> TRUE, text |-> s]

NoMatch == [matched |-> FALSE]

\* the index after the longest run of characters of class cls from i on
RECURSIVE RunEnd(_, _, _)
RunEnd(s, i, cls) ==
  IF i <= Len(s) /\ s[i] \in cls THEN RunEnd(s, i + 1, cls) ELSE i

RECURSIVE ReMatchAt(_, _, _, _)
RECURSIVE ReTryRun(_, _, _, _, _, _)

\* a run token taking s[i..e-1], the longest run first
ReTryRun(pat, s, i, e, g, name) ==
  IF e <= i THEN NoMatch
  ELSE LET r == ReMatchAt(Tail(pat), s, e,
                          [g EXCEPT ![name] = Group(SubSeq(s, i, e - 1))])
       IN  IF r.matched THEN r ELSE ReTryRun(pat, s, i, e - 1, g, name)

ReMatchAt(pat, s, i, g) ==
  IF Len(pat) = 0 THEN [matched |-> TRUE, groups |-> g]
  ELSE
    LET tok == Head(pat)
        rest == Tail(pat)
    IN  CASE tok.t = "bol" ->
               IF i = 1 THEN ReMatchAt(rest, s, i, g) ELSE NoMatch
          [] tok.t = "eol" ->
               \* $ matches at the end and before a newline that ends the text
               IF i = Len(s) + 1 \/ (i = Len(s) /\ s[i] = "\n")
               THEN ReMatchAt(rest, s, i, g) ELSE NoMatch
          [] tok.t = "lit" ->
               IF i <= Len(s) /\ s[i] = tok.c
               THEN ReMatchAt(rest, s, i + 1, g) ELSE NoMatch
          [] tok.t = "digit" ->
               IF i <= Len(s) /\ s[i] \in Digits
               THEN ReMatchAt(rest, s, i + 1,
                              [g EXCEPT ![tok.g] = Group(<<s[i]>>)])
               ELSE NoMatch
          [] tok.t = "num" ->
               ReTryRun(pat, s, i, RunEnd(s, i, Digits), g, tok.g)
          [] tok.t = "alpha" ->
               ReTryRun(pat, s, i, RunEnd(s, i, Letters), g, tok.g)
          [] tok.t = "opt" ->
               LET r == ReMatchAt(tok.sub \o rest, s, i, g)
               IN  IF r.matched THEN r ELSE ReMatchAt(rest, s, i, g)

\* re.match(pattern, s): the groupdict of the match, or NoMatch
ReMatch(pat, s) == ReMatchAt(pat, s, 1, [n \in GroupNames |-> NoGroup])

VERSION_PART_REGEXP == <<Num("r"), Lit("."), Num("f"), Lit("."), Num("p")>>

VERSION_STATE_PART_REGEXP == <<Lit("."), Digit("s"), Lit("."), Num("i")>>

VERSION_BLENDER_VERSION_PART_REGEXP ==
  <<Num("br"), Lit("."), Num("bf"), Lit("."), Num("bp")>>

VERSION_BLENDER_PART_REGEXP == <<Lit(".")>> \o VERSION_BLENDER_VERSION_PART_REGEXP

VERSION_BUILD_PART_REGEXP == <<Opt(<<Lit("."), Num("b")>>)>>

VERSION_REGEXP ==
  <<Bol>> \o VERSION_PART_REGEXP \o VERSION_STATE_PART_REGEXP
    \o VERSION_BLENDER_PART_REGEXP \o VERSION_BUILD_PART_REGEXP \o <<Eol>>

SEMVER_PRERELEASE_PART_REGEXP ==
  <<Lit("-"), Alpha("s"), Opt(<<Num("i")>>), Lit("-")>>
    \o VERSION_BLENDER_VERSION_PART_REGEXP

SEMVER_BUILD_PART_REGEXP == <<Opt(<<Lit("+"), Num("b")>>)>>

SEMVER_REGEXP ==
  <<Bol>> \o VERSION_PART_REGEXP \o SEMVER_PRERELEASE_PART_REGEXP
    \o SEMVER_BUILD_PART_REGEXP \o <<Eol>>

----------------------------------------------------------------------------
(* Python values and outcomes *)

PyInt(n) == [cls |-> "int", value |-> n]

PyStr(s) == [cls |-> "str", value |-> s]

\* the argument None, and an argument that is given
None == [none |-> TRUE]

Some(x) == [none |-> FALSE, value |-> x]

Returned(kind, value) == [kind |-> kind, value |-> value]

Raised(kind, msg) == [kind |-> kind, msg |-> msg]

IsError(r) == r.kind \in {"ValueError", "AttributeError"}

\* True == 1 and False == 0: a bool compares as the int it is
BoolAsInt(b) == IF b THEN 1 ELSE 0

\* repr(s) of a text without quotes or escapes in it
Repr(s) == <<"'">> \o s \o <<"'">>

\* "'int' object has no attribute '<name>'"
NoAttributeMessage(name) ==
  <<"'", "i", "n", "t", "'", " ", "o", "b", "j", "e", "c", "t", " ", "h", "a", "s",
    " ", "n", "o", " ", "a", "t", "t", "r", "i", "b", "u", "t", "e", " ">> \o Repr(name)

\* int(s) of a text: the number, or the ValueError int() raises
IntOfStr(s) ==
  IF Len(s) > 0 /\ \A k \in 1..Len(s) : s[k] \in Digits
  THEN Returned("int", StrToInt(s))
  ELSE Raised("ValueError",
         <<"i", "n", "v", "a", "l", "i", "d", " ", "l", "i", "t", "e", "r", "a", "l",
           " ", "f", "o", "r", " ", "i", "n", "t", "(", ")", " ", "w", "i", "t", "h",
           " ", "b", "a", "s", "e", " ", "1", "0", ":", " ">> \o Repr(s))

----------------------------------------------------------------------------
(* ReleaseState *)

ALPHA == 1
BETA == 2
RC == 3
STABLE == 4

Member(n) == [cls |-> "ReleaseState", value |-> n]

MemberNames ==
  <<(<<"A", "L", "P", "H", "A">>), (<<"B", "E", "T", "A">>), (<<"R", "C">>),
    (<<"S", "T", "A", "B", "L", "E">>)>>

\* ReleaseState(n): the member of that value, or the ValueError of the enum
ReleaseStateOf(n) ==
  IF n \in {ALPHA, BETA, RC, STABLE} THEN Returned("ReleaseState", Member(n))
  ELSE Raised("ValueError",
         IntToStr(n) \o <<" ", "i", "s", " ", "n", "o", "t", " ", "a", " ", "v", "a",
                          "l", "i", "d", " ", "R", "e", "l", "e", "a", "s", "e", "S",
                          "t", "a", "t", "e">>)

\* ReleaseState.bump(state)
ReleaseStateBump(state) ==
  IF state.value = 4 THEN state ELSE Member(state.value + 1)

\* ReleaseState.from_value(value)
ReleaseStateFromValue(value) ==
  IF value.cls = "str" /\ \E k \in 1..4 : MemberNames[k] = value.value
  THEN Returned("ReleaseState",
                Member(CHOOSE k \in 1..4 : MemberNames[k] = value.value))
  ELSE LET n == IF value.cls = "str" THEN IntOfStr(value.value)
                ELSE Returned("int", value.value)
       IN  IF IsError(n) THEN n ELSE ReleaseStateOf(n.value)

----------------------------------------------------------------------------
(* Version *)

\* the fields with state declared first
AstupleStateFirst(v) ==
  <<v.state.value, v.release, v.feature, v.patch, v.increment,
    v.brelease, v.bfeature, v.bpatch, v.build>>

\* the fields of the dataclass, in the order of their declaration
Astuple(v) ==
  <<v.release, v.feature, v.patch, v.state.value, v.increment,
    v.brelease, v.bfeature, v.bpatch, v.build>>

\* a < b for two tuples of ints of one length
RECURSIVE TupleLt(_, _)
TupleLt(a, b) ==
  IF Len(a) = 0 THEN FALSE
  ELSE IF Head(a) # Head(b) THEN Head(a) < Head(b)
  ELSE TupleLt(Tail(a), Tail(b))

\* the comparisons dataclass(order=True) generates
VersionEq(a, b) == Astuple(a) = Astuple(b)
VersionLt(a, b) == TupleLt(Astuple(a), Astuple(b))
VersionLe(a, b) == TupleLt(Astuple(a), Astuple(b)) \/ Astuple(a) = Astuple(b)
VersionGt(a, b) == TupleLt(Astuple(b), Astuple(a))
VersionGe(a, b) == TupleLt(Astuple(b), Astuple(a)) \/ Astuple(a) = Astuple(b)

\* _validate_blender testing bfeature in place of brelease
ValidateBlenderFeature(v) ==
  IF v.bfeature = 0
  THEN Raised("ValueError",
         <<"n", "o", " ", "b", "l", "e", "n", "d", "e", "r", " ", "m", "i", "n", " ",
           "v", "e", "r", "s", "i", "o", "n", " ", "r", "e", "q", "u", "i", "r", "e",
           "m", "e", "n", "t", " ", "s", "p", "e", "c", "i", "f", "i", "e", "d">>)
  ELSE Returned("NoneType", None)

\* Version._validate_blender(version): raises, or returns None
ValidateBlender(v) ==
  IF v.brelease = 0
  THEN Raised("ValueError",
         <<"n", "o", " ", "b", "l", "e", "n", "d", "e", "r", " ", "m", "i", "n", " ",
           "v", "e", "r", "s", "i", "o", "n", " ", "r", "e", "q", "u", "i", "r", "e",
           "m", "e", "n", "t", " ", "s", "p", "e", "c", "i", "f", "i", "e", "d">>)
  ELSE Returned("NoneType", None)

\* Version.from_tuple(version): the fields are stored as they are given
FromTuple(t) ==
  [release |-> t[1], feature |-> t[2], patch |-> t[3], state |-> t[4],
   increment |-> t[5], brelease |-> t[6], bfeature |-> t[7], bpatch |-> t[8],
   build |-> t[9]]

\* Version.to_tuple(version): version.state.value fails on a plain int
ToTuple(v) ==
  IF v.state.cls = "ReleaseState"
  THEN Returned("tuple",
         <<v.release, v.feature, v.patch, PyInt(v.state.value), v.increment,
           v.brelease, v.bfeature, v.bpatch, v.build>>)
  ELSE Raised("AttributeError", NoAttributeMessage(<<"v", "a", "l", "u", "e">>))

\* str(item) for the items of the tuple to_tuple returns
ItemStr(t) == [k \in 1..Len(t) |-> IntToStr(IF k = 4 THEN t[k].value ELSE t[k])]

\* Version.__str__
Str(v) ==
  LET t == ToTuple(v)
  IN  IF IsError(t) THEN t ELSE Returned("str", Join(<<".">>, ItemStr(t.value)))

\* Version.to_semver(version)
ToSemver(v) ==
  IF v.state.cls # "ReleaseState"
  THEN Raised("AttributeError", NoAttributeMessage(<<"n", "a", "m", "e">>))
  ELSE Returned("str",
         IntToStr(v.release) \o <<".">> \o IntToStr(v.feature) \o <<".">>
           \o IntToStr(v.patch)
           \o <<"-">> \o MemberNames[v.state.value]
           \o (IF v.state.value = STABLE THEN <<>> ELSE IntToStr(v.increment))
           \o <<"-">> \o IntToStr(v.brelease) \o <<".">> \o IntToStr(v.bfeature)
           \o <<".">> \o IntToStr(v.bpatch)
           \o (IF v.build # 0 THEN <<"+">> \o IntToStr(v.build) ELSE <<>>))

\* _from_dict reading d['bf'] for bpatch too
FromDictFeatureTwice(d) ==
  LET state == ReleaseStateFromValue(PyStr(d["s"].text))
  IN  IF IsError(state) THEN state
      ELSE Returned("Version", FromTuple(
             <<StrToInt(d["r"].text), StrToInt(d["f"].text), StrToInt(d["p"].text),
               state.value,
               IF d["i"].present THEN StrToInt(d["i"].text) ELSE 0,
               StrToInt(d["br"].text), StrToInt(d["bf"].text), StrToInt(d["bf"].text),
               IF d["b"].present THEN StrToInt(d["b"].text) ELSE 0>>))

\* Version._from_dict(d), d the groupdict of a match
FromDict(d) ==
  LET state == ReleaseStateFromValue(PyStr(d["s"].text))
  IN  IF IsError(state) THEN state
      ELSE Returned("Version", FromTuple(
             <<StrToInt(d["r"].text), StrToInt(d["f"].text), StrToInt(d["p"].text),
               state.value,
               IF d["i"].present THEN StrToInt(d["i"].text) ELSE 0,
               StrToInt(d["br"].text), StrToInt(d["bf"].text), StrToInt(d["bp"].text),
               IF d["b"].present THEN StrToInt(d["b"].text) ELSE 0>>))

\* result = _from_dict(groupdict); _validate_blender(result); return result
Decode(d) ==
  LET r == FromDict(d)
  IN  IF IsError(r) THEN r
      ELSE LET chk == ValidateBlender(r.value)
           IN  IF IsError(chk) THEN chk ELSE r

\* '"%s" is not a valid addon semver version string, e.g. ...' % version
SemverMessage(s) ==
  <<"\"">> \o s \o
  <<"\"", " ", "i", "s", " ", "n", "o", "t", " ", "a", " ", "v", "a", "l", "i", "d",
    " ", "a", "d", "d", "o", "n", " ", "s", "e", "m", "v", "e", "r", " ", "v", "e",
    "r", "s", "i", "o", "n", " ", "s", "t", "r", "i", "n", "g", ",", " ", "e", ".",
    "g", ".", " ", "\"", "1", ".", "0", ".", "0", "-", "A", "L", "P", "H", "A", "1",
    "-", "2", ".", "9", "3", ".", "0", "\"">>

\* '"%s" is not a valid addon version string, e.g. ... or ...' % version
GenericMessage(s) ==
  <<"\"">> \o s \o
  <<"\"", " ", "i", "s", " ", "n", "o", "t", " ", "a", " ", "v", "a", "l", "i", "d",
    " ", "a", "d", "d", "o", "n", " ", "v", "e", "r", "s", "i", "o", "n", " ", "s",
    "t", "r", "i", "n", "g", ",", " ", "e", ".", "g", ".", " ", "\"", "1", ".", "0",
    ".", "0", ".", "1", ".", "1", ".", "2", ".", "9", "3", ".", "0", ".", "0", "\"",
    " ", "o", "r", " ", "\"", "1", ".", "0", ".", "0", "-", "A", "L", "P", "H", "A",
    "1", "-", "2", ".", "9", "3", ".", "0", "\"">>

\* Version._from_semver_string(version)
FromSemverString(s) ==
  LET matches == ReMatch(SEMVER_REGEXP, s)
  IN  IF ~matches.matched THEN Raised("ValueError", SemverMessage(s))
      ELSE Decode(matches.groups)

\* the except clause without the test for 'blender': every error is masked
OnSemverErrorMaskAll(ex, s) == Raised("ValueError", GenericMessage(s))

\* the except and finally clauses of from_string, for the ValueError ex that
\* _from_semver_string(version) raised
OnSemverError(ex, s) ==
  IF Contains(<<"b", "l", "e", "n", "d", "e", "r">>, ex.msg)
  THEN ex
  ELSE Raised("ValueError", GenericMessage(s))

\* Version.from_string(version)
FromString(s) ==
  LET matches == ReMatch(VERSION_REGEXP, s)
  IN  IF ~matches.matched
      THEN LET r == FromSemverString(s)
           IN  IF r.kind = "ValueError" THEN OnSemverError(r, s) ELSE r
      ELSE Decode(matches.groups)

\* the axis selection with 'if feature' in place of 'elif feature'
BumpAxisNoElif(v, tmp, release, feature, patch, state, increment) ==
  IF release \/ feature \/ patch
  THEN LET t1 == IF release THEN [tmp EXCEPT ![1] = v.release + 1, ![2] = 0]
                 ELSE tmp
           t2 == IF feature THEN [t1 EXCEPT ![2] = v.feature + 1]
                 ELSE IF patch THEN [t1 EXCEPT ![3] = v.patch + 1]
                 ELSE t1
       IN  IF release \/ feature
           THEN [t2 EXCEPT ![3] = 0, ![4] = Member(ALPHA), ![5] = 1]
           ELSE t2
  ELSE IF state
  THEN [tmp EXCEPT ![4] = ReleaseStateBump(v.state),
                   ![5] = IF BoolAsInt(state) = STABLE THEN 0 ELSE 1]
  ELSE IF increment /\ tmp[4].value # STABLE
  THEN [tmp EXCEPT ![5] = v.increment + 1]
  ELSE tmp

\* lines 256-273 of bump: the axis the flags select, on the list tmp
BumpAxis(v, tmp, release, feature, patch, state, increment) ==
  IF release \/ feature \/ patch
  THEN LET t1 == IF release THEN [tmp EXCEPT ![1] = v.release + 1, ![2] = 0]
                 ELSE IF feature THEN [tmp EXCEPT ![2] = v.feature + 1]
                 ELSE IF patch THEN [tmp EXCEPT ![3] = v.patch + 1]
                 ELSE tmp
       IN  IF release \/ feature
           THEN [t1 EXCEPT ![3] = 0, ![4] = Member(ALPHA), ![5] = 1]
           ELSE t1
  ELSE IF state
  \* the flag state, a bool, is what is compared with ReleaseState.STABLE
  THEN [tmp EXCEPT ![4] = ReleaseStateBump(v.state),
                   ![5] = IF BoolAsInt(state) = STABLE THEN 0 ELSE 1]
  ELSE IF increment /\ tmp[4].value # STABLE
  THEN [tmp EXCEPT ![5] = v.increment + 1]
  ELSE tmp

\* lines 275-280 of bump: the build is reset when a flag is set, and then set
\* to the argument build when that is truthy (neither None nor 0)
BumpBuild(tmp, release, feature, patch, state, increment, build) ==
  LET t1 == IF release \/ feature \/ patch \/ state \/ increment
            THEN [tmp EXCEPT ![9] = 0] ELSE tmp
  IN  IF ~build.none /\ build.value # 0 THEN [t1 EXCEPT ![9] = build.value] ELSE t1

\* lines 282-285 of bump: a tuple of three items is truthy
BumpBlender(tmp, blender) ==
  IF ~blender.none /\ Len(blender.value) # 0
  THEN [tmp EXCEPT ![6] = blender.value[1], ![7] = blender.value[2],
                   ![8] = blender.value[3]]
  ELSE tmp

\* Version.bump(version, release, feature, patch, state, increment, build, blender)
Bump(v, release, feature, patch, state, increment, build, blender) ==
  LET t == ToTuple(v)
  IN  IF IsError(t) THEN t
      ELSE
        LET st == ReleaseStateFromValue(t.value[4])
        IN  IF IsError(st) THEN st
            ELSE
              LET tmp == [t.value EXCEPT ![4] = st.value]
                  t1 == BumpAxis(v, tmp, release, feature, patch, state, increment)
                  t2 == BumpBuild(t1, release, feature, patch, state, increment, build)
                  t3 == BumpBlender(t2, blender)
                  res == FromTuple(t3)
                  chk == ValidateBlender(res)
              IN  IF IsError(chk) THEN chk ELSE Returned("Version", res)

----------------------------------------------------------------------------
(* The caller: it holds the outcome of its last call, and passes that on   *)
(* to the next call that takes a value of its type.  call records the last *)
(* call with its arguments, result its outcome, and bumps counts the calls *)
(* of bump made so far.                                                    *)

\* the longest sequence of bump calls explored
MaxBumps == 1

VersionParts ==
  {(<<"1", ".", "2", ".", "1", "0">>)}

DottedStateParts ==
  {(<<".", "1", ".", "1">>),
   (<<".", "3", ".", "2">>),
   (<<".", "4", ".", "0">>),
   (<<".", "4", ".", "5">>),
   (<<".", "0", ".", "1">>),
   (<<".", "9", ".", "1">>),
   (<<".", "1", "2", ".", "1">>),
   (<<".", "2">>)}

DottedBlenderParts ==
  {(<<".", "2", ".", "9", "3", ".", "0">>),
   (<<".", "0", ".", "0", ".", "0">>),
   (<<".", "0", ".", "9", "3", ".", "0">>),
   (<<>>)}

DottedBuildParts ==
  {(<<>>),
   (<<".", "7">>),
   (<<".">>),
   (<<"\n">>)}

SemverStateParts ==
  {(<<"-", "A", "L", "P", "H", "A", "1">>),
   (<<"-", "A", "L", "P", "H", "A">>),
   (<<"-", "B", "E", "T", "A", "0">>),
   (<<"-", "R", "C", "2">>),
   (<<"-", "S", "T", "A", "B", "L", "E">>),
   (<<"-", "S", "T", "A", "B", "L", "E", "5">>),
   (<<"-", "G", "A", "M", "M", "A", "1">>),
   (<<"-", "a", "l", "p", "h", "a", "1">>),
   (<<"-", "b", "l", "e", "n", "d", "e", "r", "1">>),
   (<<"-", "4">>)}

SemverBlenderParts ==
  {(<<"-", "2", ".", "9", "3", ".", "0">>),
   (<<"-", "0", ".", "0", ".", "0">>),
   (<<"-", "0", ".", "9", "3", ".", "0">>),
   (<<>>)}

SemverBuildParts ==
  {(<<>>),
   (<<"+", "7">>),
   (<<"+">>),
   (<<"\n">>)}

\* the texts of the doctests of from_string, and texts of neither form
OtherTexts ==
  {(<<"1", ".", "0", ".", "0", ".", "1", ".", "1", ".", "2", ".", "9", "3", ".", "0", ".", "0">>),
   (<<"1", ".", "0", ".", "0", "-", "A", "L", "P", "H", "A", "1", "-", "2", ".", "9", "3", ".", "0">>),
   (<<"1", ".", "0", ".", "0", "-", "A", "L", "P", "H", "A", "1">>),
   (<<"1", ".", "0", ".", "0", "-", "A", "L", "P", "H", "A", "1", "-", "0", ".", "0", ".", "0">>),
   (<<"1", ".", "0", ".", "0", ".", "1", ".", "1">>),
   (<<"1", ".", "0", ".", "0", ".", "1", ".", "1", ".", "0", ".", "0", ".", "0">>),
   (<<>>),
   (<<"b", "l", "e", "n", "d", "e", "r">>),
   (<<"1", ".", "0", ".", "0", "-", "b", "l", "e", "n", "d", "e", "r">>),
   (<<" ", "1", ".", "0", ".", "0", ".", "1", ".", "1", ".", "2", ".", "9", "3", ".", "0", ".", "0">>),
   (<<"1", ".", "0", ".", "0", "-", "A", "L", "P", "H", "A", "1", "-", "2", ".", "9", "3", ".", "0", "-", "x">>)}

\* the texts a caller passes to from_string
Texts ==
  {v \o s \o b \o n : v \in VersionParts, s \in DottedStateParts,
                      b \in DottedBlenderParts, n \in DottedBuildParts}
  \cup {v \o s \o b \o n : v \in VersionParts, s \in SemverStateParts,
                           b \in SemverBlenderParts, n \in SemverBuildParts}
  \cup OtherTexts

\* the tuples a caller passes to from_tuple: nine ints, as in bl_info
Tuples ==
  {<<1, 0, 0, PyInt(s), 1, br, 93, 0, 0>> : s \in {ALPHA, STABLE}, br \in {0, 2}}

\* the Versions a caller compares the Version it holds with
Others ==
  {FromTuple(<<1, 2, p, Member(s), i, 2, 93, 0, 0>>) :
     p \in {10, 11}, s \in {ALPHA, RC}, i \in {1}}

\* the arguments build and blender of bump
Builds == {None, Some(0), Some(7)}

Blenders == {None, Some(<<0, 1, 0>>), Some(<<3, 1, 0>>)}

CompareOps == {"lt", "le", "gt", "ge", "eq"}

Init ==
  /\ call = [op |-> "none"]
  /\ \/ \E s \in Texts : result = Returned("str", s)
     \/ \E t \in Tuples : result = Returned("tuple", t)
  /\ bumps = 0

\* Version.from_string(text), text the str held
CallFromString ==
  /\ result.kind = "str"
  /\ call' = [op |-> "from_string", text |-> result.value]
  /\ result' = FromString(result.value)
  /\ UNCHANGED bumps

\* Version.from_tuple(t), t the tuple held
CallFromTuple ==
  /\ result.kind = "tuple"
  /\ call' = [op |-> "from_tuple", tuple |-> result.value]
  /\ result' = Returned("Version", FromTuple(result.value))
  /\ UNCHANGED bumps

\* Version.to_tuple(v), v the Version held
CallToTuple ==
  /\ result.kind = "Version"
  /\ call' = [op |-> "to_tuple", version |-> result.value]
  /\ result' = ToTuple(result.value)
  /\ UNCHANGED bumps

\* str(v)
CallStr ==
  /\ result.kind = "Version"
  /\ call' = [op |-> "str", version |-> result.value]
  /\ result' = Str(result.value)
  /\ UNCHANGED bumps

\* Version.to_semver(v)
CallToSemver ==
  /\ result.kind = "Version"
  /\ call' = [op |-> "to_semver", version |-> result.value]
  /\ result' = ToSemver(result.value)
  /\ UNCHANGED bumps

\* v < other, v <= other, v > other, v >= other, v == other
CallCompare ==
  /\ result.kind = "Version"
  /\ \E op \in CompareOps, other \in Others :
       /\ call' = [op |-> op, version |-> result.value, other |-> other]
       /\ result' = Returned("bool",
            CASE op = "lt" -> VersionLt(result.value, other)
              [] op = "le" -> VersionLe(result.value, other)
              [] op = "gt" -> VersionGt(result.value, other)
              [] op = "ge" -> VersionGe(result.value, other)
              [] op = "eq" -> VersionEq(result.value, other))
  /\ UNCHANGED bumps

\* Version.bump(v, ...)
CallBump ==
  /\ result.kind = "Version"
  /\ bumps < MaxBumps
  /\ \E release, feature, patch, state, increment \in BOOLEAN,
        build \in Builds, blender \in Blenders :
       /\ call' = [op |-> "bump", version |-> result.value, release |-> release,
                   feature |-> feature, patch |-> patch, state |-> state,
                   increment |-> increment, build |-> build, blender |-> blender]
       /\ result' = Bump(result.value, release, feature, patch, state, increment,
                         build, blender)
  /\ bumps' = bumps + 1

Next ==
  \/ CallFromString
  \/ CallFromTuple
  \/ CallToTuple
  \/ CallStr
  \/ CallToSemver
  \/ CallCompare
  \/ CallBump

Spec == Init /\ [][Next]_vars
----------------------------------------------------------------------------
(* Properties *)

NoBlenderError ==
  Raised("ValueError",
    <<"n", "o", " ", "b", "l", "e", "n", "d", "e", "r", " ", "m", "i", "n", " ",
      "v", "e", "r", "s", "i", "o", "n", " ", "r", "e", "q", "u", "i", "r", "e",
      "m", "e", "n", "t", " ", "s", "p", "e", "c", "i", "f", "i", "e", "d">>)

\* a Version of the kind the round trips are stated for: its state is a
\* ReleaseState member and its brelease is not zero
Valid(v) == v.state.cls = "ReleaseState" /\ v.brelease # 0

\* r is the outcome "returned a Version equal to v"
ReturnsEqual(r, v) == r.kind = "Version" /\ VersionEq(r.value, v)

\* r is the outcome "raised the ValueError of message msg"
RaisesValueError(r, msg) == r.kind = "ValueError" /\ r.msg = msg

\* C1: the semver string of a valid Version parses back to an equal Version.
C1_SemverRoundTrip ==
  (call.op = "to_semver" /\ Valid(call.version))
    => /\ result.kind = "str"
       /\ ReturnsEqual(FromString(result.value), call.version)

\* C2: the dotted string of a valid Version parses back to an equal Version,
\* and it carries the build segment also when build is 0.
C2_DottedRoundTrip ==
  (call.op = "str" /\ Valid(call.version))
    => /\ result.kind = "str"
       /\ ReturnsEqual(FromString(result.value), call.version)
       /\ Len(SelectSeq(result.value, LAMBDA c : c = ".")) = 8

C2_Witness ==
  /\ call.op = "str"
  /\ Valid(call.version)
  /\ call.version.build = 0
  /\ call.version.patch >= 10
  /\ call.version.state.value = STABLE
  /\ bumps > 0
  /\ result.kind = "str"

\* C3: to_tuple(from_tuple(t)) returns t, for a tuple t of nine ints with
\* brelease > 0 and the state an int in 1..4.
C3_TupleRoundTrip ==
  \A t \in Tuples :
    (call.op = "to_tuple" /\ call.version = FromTuple(t) /\ t[6] > 0)
      => (result.kind = "tuple" /\ result.value = t)

\* the brelease a call of bump leaves in the list it builds the result from
BumpedBrelease ==
  IF ~call.blender.none /\ Len(call.blender.value) # 0
  THEN call.blender.value[1] ELSE call.version.brelease

\* the Version the text of a from_string call decodes to: the outcome of
\* _from_dict on the groups of the form that matches
Decoded ==
  LET dotted == ReMatch(VERSION_REGEXP, call.text)
      semver == ReMatch(SEMVER_REGEXP, call.text)
  IN  IF dotted.matched THEN FromDict(dotted.groups)
      ELSE IF semver.matched THEN FromDict(semver.groups)
      ELSE Raised("ValueError", <<>>)

SemverWithZeroBR ==
  /\ call.op = "from_string"
  /\ ~ReMatch(VERSION_REGEXP, call.text).matched
  /\ ReMatch(SEMVER_REGEXP, call.text).matched
  /\ StrToInt(ReMatch(SEMVER_REGEXP, call.text).groups["br"].text) = 0

\* the state of such a text is the name of a ReleaseState member
SemverStateIsMember ==
  \E k \in 1..4 : MemberNames[k] = ReMatch(SEMVER_REGEXP, call.text).groups["s"].text

\* C5 as stated: every text of the semver form with BR zero fails with the
\* error of the missing blender version.
C5_Original == SemverWithZeroBR => result = NoBlenderError

\* C5, amended: every text of the semver form with BR zero whose state is one
\* of the names ALPHA, BETA, RC, STABLE fails with the error of the missing
\* blender version, and not with the generic error.
C5_NoBlenderNotMasked ==
  (SemverWithZeroBR /\ SemverStateIsMember)
    => /\ result = NoBlenderError
       /\ ~RaisesValueError(result, GenericMessage(call.text))

C5_Witness ==
  /\ SemverWithZeroBR
  /\ SemverStateIsMember
  /\ ReMatch(SEMVER_REGEXP, call.text).groups["b"].present
  /\ result = NoBlenderError

\* C6: a text of neither form fails with the generic error, whose message
\* names the text and shows both examples.
C6_GenericError ==
  (/\ call.op = "from_string"
   /\ ~ReMatch(VERSION_REGEXP, call.text).matched
   /\ ~ReMatch(SEMVER_REGEXP, call.text).matched)
    => RaisesValueError(result, GenericMessage(call.text))

\* the fields in the order of their declaration, state by its ordinal
FieldNames ==
  <<"release", "feature", "patch", "state", "increment", "brelease", "bfeature",
    "bpatch", "build">>

Field(v, k) == IF FieldNames[k] = "state" THEN v.state.value ELSE v[FieldNames[k]]

\* a is before b in the lexicographic order: the first field that differs is
\* smaller in a
LexLess(a, b) ==
  \E k \in 1..9 : /\ \A j \in 1..(k - 1) : Field(a, j) = Field(b, j)
                  /\ Field(a, k) < Field(b, k)

LexEqual(a, b) == \A k \in 1..9 : Field(a, k) = Field(b, k)

\* C7: the comparisons are those of the lexicographic order over the fields
\* in declaration order, and that order is total: of a < b, a == b, a > b
\* exactly one holds, and < is transitive.
C7_LexicographicOrder ==
  call.op \in CompareOps =>
    LET a == call.version
        b == call.other
    IN  /\ result.kind = "bool"
        /\ call.op = "lt" => (result.value <=> LexLess(a, b))
        /\ call.op = "le" => (result.value <=> (LexLess(a, b) \/ LexEqual(a, b)))
        /\ call.op = "gt" => (result.value <=> LexLess(b, a))
        /\ call.op = "ge" => (result.value <=> (LexLess(b, a) \/ LexEqual(a, b)))
        /\ call.op = "eq" => (result.value <=> LexEqual(a, b))
        /\ Cardinality({x \in {"lt", "eq", "gt"} :
                          CASE x = "lt" -> VersionLt(a, b)
                            [] x = "eq" -> VersionEq(a, b)
                            [] x = "gt" -> VersionGt(a, b)}) = 1
        /\ \A c \in Others :
             (VersionLt(a, b) /\ VersionLt(b, c)) => VersionLt(a, c)

\* a smaller patch decides although the state is greater
C7_Witness ==
  /\ call.op = "lt"
  /\ call.version.patch < call.other.patch
  /\ call.version.state.value > call.other.state.value
  /\ result.kind = "bool"
  /\ result.value

\* the call of bump that sets only the flag of highest precedence among the
\* flags the last call set, with the same build and blender
HighestFlagOnly ==
  LET release == call.release
      feature == ~release /\ call.feature
      patch == ~release /\ ~feature /\ call.patch
      state == ~release /\ ~feature /\ ~patch /\ call.state
      increment == ~release /\ ~feature /\ ~patch /\ ~state /\ call.increment
  IN  Bump(call.version, release, feature, patch, state, increment,
           call.build, call.blender)

FlagsSet ==
  Cardinality({k \in 1..5 :
    <<call.release, call.feature, call.patch, call.state, call.increment>>[k]})

\* C8: with several flags set, bump returns what it returns with only the
\* flag of highest precedence set (release > feature > patch > state >
\* increment).
C8_Precedence ==
  (call.op = "bump" /\ Valid(call.version) /\ FlagsSet >= 1)
    => result = HighestFlagOnly

C8_Witness ==
  /\ call.op = "bump"
  /\ Valid(call.version)
  /\ ~call.release
  /\ call.feature
  /\ call.patch
  /\ call.state
  /\ call.increment
  /\ result.kind = "Version"
  /\ call.version.state.value = RC

\* C9: a bump of the state alone leaves the next state, with increment 0 when
\* that state is STABLE and 1 otherwise.
C9_StateBumpIncrement ==
  (/\ call.op = "bump"
   /\ Valid(call.version)
   /\ call.state /\ ~call.release /\ ~call.feature /\ ~call.patch
   /\ result.kind = "Version")
    => /\ result.value.state = ReleaseStateBump(call.version.state)
       /\ result.value.increment =
            (IF ReleaseStateBump(call.version.state).value = STABLE THEN 0 ELSE 1)

\* C10: a build that is given, 0 included, is the build of the Version that
\* bump returns.
C10_BuildOverride ==
  (/\ call.op = "bump"
   /\ Valid(call.version)
   /\ ~call.build.none
   /\ result.kind = "Version")
    => result.value.build = call.build.value
====
